---- MODULE Spec2Model ----
(***************************************************************************)
(* Model of the davil view controllers: ClusterController                  *)
(* (cluster_controller.py) and MapperController (mapper_controller.py),    *)
(* and of the star axis generator AxisGenerator (axisgenerator.py).        *)
(* Each controller is one object; a step of a specification is one call of *)
(* one of its public methods.  Python's None is the empty tuple << >> and  *)
(* a present value v is << v >>; an exception raised by a call is recorded *)
(* in the call record of the controller together with what the call did.   *)
(***************************************************************************)
EXTENDS Integers, Sequences, FiniteSets, TLC

VARIABLES
    \* ---- ClusterController
    active_algorithm_id,   \* AbstractAlgorithmController's active selection
    clustering_dic,        \* self._clustering_dic: (algorithm id, k) -> labels
    label_colors,          \* self._label_colors
    source,                \* self._source: << >> or << [color |-> column] >>
    n_clusters,            \* self._n_clusters
    algorithm_runs,        \* observer: executions of the algorithm per (id, k)
    cluster_call,          \* observer: the last call and its outcome
    \* ---- MapperController
    dimension_values_df,   \* self._dimension_values_df
    vectors_df,            \* self._vectors_df
    source_points,         \* self._source_points: << >> or << [x, y] >>
    animator,              \* self._animator: << >> or << id >>
    last_mapped_points_df, \* self._last_mapped_points_df
    ignored_axis_ids,      \* self._ignored_axis_ids
    mapping_id,            \* active mapping algorithm
    unknown_hidden,        \* observer: ids hidden while in neither table
    mapper_call,           \* observer: the last call and its outcome
    \* ---- AxisGenerator
    axis_call              \* observer: the last call, its output and result

clusterVars == << active_algorithm_id, clustering_dic, label_colors, source,
                  n_clusters, algorithm_runs, cluster_call >>
mapperVars == << dimension_values_df, vectors_df, source_points, animator,
                 last_mapped_points_df, ignored_axis_ids, mapping_id,
                 unknown_hidden, mapper_call >>
axisVars == << axis_call >>
vars == << clusterVars, mapperVars, axisVars >>

None == << >>
Some(v) == << v >>

\* ------------------------------------------------------------ bounds
\* Largest cluster count a caller passes (constructor or setter).
MaxClusters == 3

\* Largest number of axis labels handed to the axis generator.
MaxLabels == 4

\* ------------------------------------------------------------ AxisGenerator
\* AxisGenerator has static methods only and keeps no state: before a call
\* there is nothing to record.
AxisIdle ==
    axis_call = [op |-> "none", labels |-> << >>, segment_list |-> << >>,
                 printed |-> None, ret |-> None]

\* ------------------------------------------------------------ ClusterController
MIN_CLUSTERS == 3

DEFAULT_LABEL_COLORS ==
    << "red", "navy", "green", "orange", "grey", "yellow", "black" >>

\* A caller-supplied palette shorter than the cluster counts in use.
CUSTOM_LABEL_COLORS == << "cyan", "pink" >>

\* The registry's algorithm identifiers (DUMMY_ID is the default one).
DUMMY_ID == "dummy"
ClusteringIds == { DUMMY_ID, "kmeans" }

\* The counts callers pass: the largest rejected one and the accepted ones.
ClusterCounts == (MIN_CLUSTERS - 1)..MaxClusters
PairKeys == ClusteringIds \X ClusterCounts

\* The data frames a caller hands to update_clusters: a row index and one
\* feature value per row.
ClusterTables ==
    { [index |-> << "r1", "r2" >>, values |-> << 0, 5 >>],
      [index |-> << "r1", "r2" >>, values |-> << 1, 0 >>],
      [index |-> << "r7" >>, values |-> << 2 >>] }

NoTable == [index |-> << >>, values |-> << >>]

\* execute_active_algorithm(data, n_clusters=k): one label in 0..k-1 per row.
\* The dummy clustering puts every row in cluster 0; the other one spreads
\* the rows over the k clusters by value.
ExecuteClustering(id, data, k) ==
    [ i \in 1..Len(data.values) |->
        IF id = DUMMY_ID THEN 0 ELSE data.values[i] % k ]

\* [self._label_colors[i] for i in labels]: IndexError past the palette.
ColorsRaise(palette, labels) ==
    \E i \in 1..Len(labels) : labels[i] >= Len(palette)

\* Mutant: the palette is indexed one past the label.
ColorsShifted(palette, labels) ==
    [ i \in 1..Len(labels) |-> palette[((labels[i] + 1) % Len(palette)) + 1] ]

Colors(palette, labels) ==
    [ i \in 1..Len(labels) |-> palette[labels[i] + 1] ]

\* pd.Series(colors, index=index): the lengths must agree.
SeriesRaises(values, index) == Len(values) # Len(index)

Series(values, index) == [index |-> index, values |-> values]

CallRecord(op, n, data, exc, ret, executed) ==
    [op |-> op, n |-> n, data |-> data, exc |-> exc, ret |-> ret,
     executed |-> executed]

\* __init__(algorithm_id, source, label_colors, n_clusters)
ClusterConstructed ==
    /\ active_algorithm_id \in ClusteringIds
    /\ clustering_dic = << >>
    /\ \E arg \in { None, CUSTOM_LABEL_COLORS } :
          label_colors = IF arg = << >> THEN DEFAULT_LABEL_COLORS ELSE arg
    /\ source \in { None, Some([color |-> None]) }
    /\ n_clusters \in ClusterCounts
    /\ algorithm_runs = [ key \in PairKeys |-> 0 ]
    /\ cluster_call = CallRecord("__init__", 0, NoTable, "none", None, FALSE)

\* Mutant: the cache is never consulted.
CacheHitNever(key) == FALSE

CacheHit(key) == key \in DOMAIN clustering_dic

\* Mutant: the labels are not stored.
CachePutDropped(key, labels) == clustering_dic

\* Mutant: storing a key evicts the others.
CachePutEvicting(key, labels) == [ k \in { key } |-> labels ]

CachePut(key, labels) ==
    [ k \in DOMAIN clustering_dic \cup { key } |->
        IF k = key THEN labels ELSE clustering_dic[k] ]

update_clusters(data) ==
    LET key == << active_algorithm_id, n_clusters >>
        hit == CacheHit(key)
        labels == IF hit THEN clustering_dic[key]
                  ELSE ExecuteClustering(active_algorithm_id, data, n_clusters)
        exc == IF ColorsRaise(label_colors, labels) THEN "IndexError"
               ELSE IF source # None
                       /\ SeriesRaises(Colors(label_colors, labels), data.index)
                    THEN "ValueError"
               ELSE "none"
    IN  /\ clustering_dic' = IF hit THEN clustering_dic ELSE CachePut(key, labels)
        /\ algorithm_runs' =
              IF hit THEN algorithm_runs
              ELSE [algorithm_runs EXCEPT ![key] = @ + 1]
        /\ source' =
              IF exc = "none" /\ source # None
              THEN Some([color |-> Some(Series(Colors(label_colors, labels),
                                               data.index))])
              ELSE source
        /\ cluster_call' =
              CallRecord("update_clusters", 0, data, exc, None, ~hit)
        /\ UNCHANGED << axisVars, mapperVars, active_algorithm_id, label_colors, n_clusters >>

\* Mutant: the count is stored without validation.
update_number_of_clusters_unchecked(n) ==
    /\ cluster_call' = CallRecord("update_number_of_clusters", n, NoTable,
                                  "none", None, FALSE)
    /\ n_clusters' = n
    /\ UNCHANGED << axisVars, mapperVars, active_algorithm_id, clustering_dic, label_colors, source,
                    algorithm_runs >>

update_number_of_clusters(n) ==
    /\ IF n < MIN_CLUSTERS
       THEN /\ cluster_call' = CallRecord("update_number_of_clusters", n,
                                          NoTable, "ValueError", None, FALSE)
            /\ UNCHANGED n_clusters
       ELSE /\ cluster_call' = CallRecord("update_number_of_clusters", n,
                                          NoTable, "none", None, FALSE)
            /\ n_clusters' = n
    /\ UNCHANGED << axisVars, mapperVars, active_algorithm_id, clustering_dic, label_colors, source,
                    algorithm_runs >>

get_number_of_clusters ==
    /\ cluster_call' = CallRecord("get_number_of_clusters", 0, NoTable, "none",
                                  Some(n_clusters), FALSE)
    /\ UNCHANGED << axisVars, mapperVars, active_algorithm_id, clustering_dic, label_colors, source,
                    n_clusters, algorithm_runs >>

\* Mutant: a missing key yields empty labels instead of failing.
get_classes_default ==
    LET key == << active_algorithm_id, n_clusters >>
    IN  /\ cluster_call' =
              CallRecord("get_classes", 0, NoTable, "none",
                         Some(IF key \in DOMAIN clustering_dic
                              THEN clustering_dic[key] ELSE << >>), FALSE)
        /\ UNCHANGED << axisVars, mapperVars, active_algorithm_id, clustering_dic, label_colors,
                        source, n_clusters, algorithm_runs >>

get_classes ==
    LET key == << active_algorithm_id, n_clusters >>
    IN  /\ cluster_call' =
              IF key \in DOMAIN clustering_dic
              THEN CallRecord("get_classes", 0, NoTable, "none",
                              Some(clustering_dic[key]), FALSE)
              ELSE CallRecord("get_classes", 0, NoTable, "KeyError", None, FALSE)
        /\ UNCHANGED << axisVars, mapperVars, active_algorithm_id, clustering_dic, label_colors,
                        source, n_clusters, algorithm_runs >>

\* The base class's change of the active algorithm.
update_algorithm(id) ==
    /\ active_algorithm_id' = id
    /\ cluster_call' = CallRecord("update_algorithm", 0, NoTable, "none", None,
                                  FALSE)
    /\ UNCHANGED << axisVars, mapperVars, clustering_dic, label_colors, source, n_clusters,
                    algorithm_runs >>

MapperIdle ==
    /\ dimension_values_df = << >>
    /\ vectors_df = << >>
    /\ source_points = None
    /\ animator = None
    /\ last_mapped_points_df = None
    /\ ignored_axis_ids = {}
    /\ mapping_id = ""
    /\ unknown_hidden = {}
    /\ mapper_call = << >>

ClusterNext ==
    \/ \E data \in ClusterTables : update_clusters(data)
    \/ \E n \in ClusterCounts : update_number_of_clusters(n)
    \/ get_number_of_clusters
    \/ get_classes
    \/ \E id \in ClusteringIds : update_algorithm(id)

\* A ClusterController on its own: the mapper's variables stay idle.
ClusterInit == ClusterConstructed /\ MapperIdle /\ AxisIdle

ClusterSpec == ClusterInit /\ [][ClusterNext]_vars

\* ------------------------------------------------------------ MapperController
\* Axis identifiers callers use; "c" is in no vectors table.
AxisIds == { "a", "b", "c" }

DUMMY_COORDINATES_ID == "dummy_coordinates"
MappingIds == { DUMMY_COORDINATES_ID, "star_coordinates" }

\* Dimension values: axis (column) -> the column's values, one per sample.
DimensionTables ==
    { [ axis \in { "a", "b" } |-> << 1 >> ],
      [ axis \in { "a", "b", "c" } |-> IF axis = "b" THEN << 0 >> ELSE << 1 >> ] }

\* Vectors: axis (row) -> endpoint [x, y].
Endpoint(x, y) == [x |-> x, y |-> y]

InitialVectors ==
    [ axis \in { "a", "b" } |->
        IF axis = "a" THEN Endpoint(1, 0) ELSE Endpoint(0, 1) ]

\* Frames handed to update_vector_values: rows << axis, x, y >> in index order.
VectorUpdates ==
    { << << "a", 0, 1 >> >>,
      << << "b", 1, 0 >>, << "c", 1, 0 >>, << "a", 1, 0 >> >> }

\* Endpoints handed to update_single_vector.
NewEndpoints == { Endpoint(1, 0), Endpoint(0, 1) }

Restrict(table, keep) == [ axis \in keep |-> table[axis] ]

Ok(value) == [exc |-> "none", value |-> Some(value)]
Raised(exc) == [exc |-> exc, value |-> None]

\* Mutant: labels missing from the table are skipped (errors='ignore').
DropLenient(table, labels) == Ok(Restrict(table, DOMAIN table \ labels))

\* df.drop(labels, axis): every label must be in the table.
Drop(table, labels) ==
    IF labels \subseteq DOMAIN table
    THEN Ok(Restrict(table, DOMAIN table \ labels))
    ELSE Raised("KeyError")

\* Mutant: the frame itself is used, not a copy of it.
VectorsNotCopied == [table |-> vectors_df, shared |-> TRUE]

\* self._vectors_df.copy(): a frame of its own with the same rows; shared
\* tells whether the frame is the controller's own object.
VectorsCopy == [table |-> vectors_df, shared |-> FALSE]

DimensionValuesCopy == [table |-> dimension_values_df, shared |-> FALSE]

\* Mutant: the copy is returned unfiltered.
GetVectorsUnfiltered == Ok(vectors_df)

GetVectors ==
    IF ignored_axis_ids # {} THEN Drop(VectorsCopy.table, ignored_axis_ids)
    ELSE Ok(VectorsCopy.table)

GetDimensionValues ==
    IF ignored_axis_ids # {}
    THEN Drop(DimensionValuesCopy.table, ignored_axis_ids)
    ELSE Ok(DimensionValuesCopy.table)

\* What a change made in place to a frame leaves in the controller's frame:
\* the change if the two are one object, nothing otherwise.
InPlace(own, shared, result) ==
    IF shared /\ result.exc = "none" THEN result.value[1] ELSE own

RECURSIVE SumOver(_, _)
SumOver(axes, term) ==
    IF axes = {} THEN 0
    ELSE LET axis == CHOOSE a \in axes : TRUE
         IN  term[axis] + SumOver(axes \ { axis }, term)

\* execute_active_algorithm(dimension_values_df, vectors_df): the dummy mapper
\* puts every sample at the origin; star coordinates sums value * endpoint
\* over the axes.
ExecuteMapping(id, dims, vecs) ==
    LET axes == DOMAIN dims \cap DOMAIN vecs
        X == [ axis \in axes |-> dims[axis][1] * vecs[axis].x ]
        Y == [ axis \in axes |-> dims[axis][1] * vecs[axis].y ]
    IN  IF id = DUMMY_COORDINATES_ID
        THEN [x |-> << 0 >>, y |-> << 0 >>]
        ELSE [x |-> << SumOver(axes, X) >>, y |-> << SumOver(axes, Y) >>]

MapperRecord(op, arg, exc, ret, algorithm_in, animation) ==
    [op |-> op, arg |-> arg, exc |-> exc, ret |-> ret,
     algorithm_in |-> algorithm_in, animation |-> animation,
     shared |-> FALSE]

\* __init__(dimension_values_df, vectors_df, source_points, mapping_id, animator)
MapperConstructed ==
    /\ dimension_values_df \in DimensionTables
    /\ vectors_df = InitialVectors
    /\ source_points \in { None, Some([x |-> None, y |-> None]) }
    /\ animator \in { None, Some("animator") }
    /\ last_mapped_points_df = None
    /\ ignored_axis_ids = {}
    /\ mapping_id \in MappingIds
    /\ unknown_hidden = {}
    /\ mapper_call = MapperRecord("__init__", None, "none", None, None, None)

update_axis_status(axis_id, visible) ==
    /\ ignored_axis_ids' = IF visible THEN ignored_axis_ids \ { axis_id }
                           ELSE ignored_axis_ids \cup { axis_id }
    /\ mapper_call' = MapperRecord("update_axis_status", << axis_id, visible >>,
                                   "none", None, None, None)
    /\ unknown_hidden' =
          IF visible THEN unknown_hidden \ { axis_id }
          ELSE IF axis_id \notin DOMAIN vectors_df
                  /\ axis_id \notin DOMAIN dimension_values_df
               THEN unknown_hidden \cup { axis_id }
          ELSE unknown_hidden
    /\ UNCHANGED << axisVars, clusterVars, dimension_values_df, vectors_df, source_points,
                    animator, last_mapped_points_df, mapping_id >>

\* The drop is made in place on the copy, which is what the caller gets.
get_vectors ==
    /\ mapper_call' =
          [MapperRecord("get_vectors", None, GetVectors.exc, GetVectors.value,
                        None, None) EXCEPT !.shared = VectorsCopy.shared]
    /\ vectors_df' = InPlace(vectors_df, VectorsCopy.shared, GetVectors)
    /\ UNCHANGED << axisVars, clusterVars, dimension_values_df, source_points,
                    animator, last_mapped_points_df, ignored_axis_ids,
                    mapping_id, unknown_hidden >>

get_dimension_values ==
    /\ mapper_call' =
          [MapperRecord("get_dimension_values", None, GetDimensionValues.exc,
                        GetDimensionValues.value, None, None)
           EXCEPT !.shared = DimensionValuesCopy.shared]
    /\ dimension_values_df' =
          InPlace(dimension_values_df, DimensionValuesCopy.shared,
                  GetDimensionValues)
    /\ UNCHANGED << axisVars, clusterVars, vectors_df, source_points,
                    animator, last_mapped_points_df, ignored_axis_ids,
                    mapping_id, unknown_hidden >>

\* The rows or columns a caller leaves in a frame it was returned.
ChangedByCaller(frame) == Restrict(frame, {})

\* The caller of get_vectors or get_dimension_values changes, in place, the
\* frame the call returned.
caller_changes_returned ==
    /\ mapper_call.op \in { "get_vectors", "get_dimension_values" }
    /\ mapper_call.exc = "none"
    /\ LET changed == Ok(ChangedByCaller(mapper_call.ret[1]))
       IN  /\ mapper_call' =
                 [MapperRecord("caller_changes_returned", mapper_call.op,
                               "none", changed.value, None, None)
                  EXCEPT !.shared = mapper_call.shared]
           /\ vectors_df' =
                 InPlace(vectors_df,
                         mapper_call.shared /\ mapper_call.op = "get_vectors",
                         changed)
           /\ dimension_values_df' =
                 InPlace(dimension_values_df,
                         mapper_call.shared
                            /\ mapper_call.op = "get_dimension_values",
                         changed)
    /\ UNCHANGED << axisVars, clusterVars, source_points, animator,
                    last_mapped_points_df, ignored_axis_ids, mapping_id,
                    unknown_hidden >>

\* get_filtered_mapping_df: the dimension values are filtered first.
GetFilteredMappingDf ==
    IF GetDimensionValues.exc # "none" THEN Raised(GetDimensionValues.exc)
    ELSE IF GetVectors.exc # "none" THEN Raised(GetVectors.exc)
    ELSE Ok(<< GetDimensionValues.value[1], GetVectors.value[1] >>)

\* Mutant: the unfiltered tables go to the algorithm.
MappingInputsUnfiltered == Ok(<< dimension_values_df, vectors_df >>)

\* The tables execute_mapping hands to the algorithm.
MappingInputs ==
    IF ignored_axis_ids # {} THEN GetFilteredMappingDf
    ELSE Ok(<< dimension_values_df, vectors_df >>)

\* Mutant: the source is written whether or not an animator is set.
WritesSourceAlways == source_points # None

\* elif self._source_points: only without an animator.
WritesSource == animator = None /\ source_points # None

execute_mapping ==
    LET inputs == MappingInputs
        mapped == ExecuteMapping(mapping_id, inputs.value[1][1],
                                 inputs.value[1][2])
    IN  /\ IF inputs.exc # "none"
           THEN /\ mapper_call' = MapperRecord("execute_mapping", None,
                                               inputs.exc, None, None, None)
                /\ UNCHANGED << source_points, last_mapped_points_df >>
           ELSE /\ mapper_call' =
                     MapperRecord("execute_mapping", None, "none", Some(mapped),
                                  inputs.value,
                                  IF animator # None
                                  THEN Some(<< last_mapped_points_df,
                                               Some(mapped) >>)
                                  ELSE None)
                /\ source_points' =
                     IF WritesSource
                     THEN Some([x |-> Some(mapped.x), y |-> Some(mapped.y)])
                     ELSE source_points
                /\ last_mapped_points_df' = Some(mapped)
        /\ UNCHANGED << axisVars, clusterVars, dimension_values_df, vectors_df, animator,
                        ignored_axis_ids, mapping_id,
                    unknown_hidden >>

get_mapped_points ==
    /\ mapper_call' = MapperRecord("get_mapped_points", None, "none",
                                   last_mapped_points_df, None, None)
    /\ UNCHANGED << axisVars, clusterVars, dimension_values_df, vectors_df, source_points,
                    animator, last_mapped_points_df, ignored_axis_ids,
                    mapping_id,
                    unknown_hidden >>

\* Mutant: new dimension values discard the last mapped points.
update_dimension_values_resetting(new_df) ==
    /\ dimension_values_df' = new_df
    /\ last_mapped_points_df' = None
    /\ mapper_call' = MapperRecord("update_dimension_values", new_df, "none",
                                   None, None, None)
    /\ UNCHANGED << axisVars, clusterVars, vectors_df, source_points, animator,
                    ignored_axis_ids, mapping_id, unknown_hidden >>

update_dimension_values(new_df) ==
    /\ dimension_values_df' = new_df
    /\ mapper_call' = MapperRecord("update_dimension_values", new_df, "none",
                                   None, None, None)
    /\ UNCHANGED << axisVars, clusterVars, vectors_df, source_points, animator,
                    last_mapped_points_df, ignored_axis_ids, mapping_id,
                    unknown_hidden >>

\* The loop of update_vector_values over the rows of the new frame.  A row
\* whose axis is not in the controller's frame writes through a column that
\* has no such label: the frame is not enlarged, and, by the pandas build,
\* the write is either dropped or raises (strict), ending the loop.
\* Mutant: the frame is replaced by the new one.
UpdateVectorRowsWholesale(table, rows, strict) ==
    [exc |-> "none",
     table |-> [ axis \in { rows[i][1] : i \in 1..Len(rows) } |->
                   LET i == CHOOSE j \in 1..Len(rows) : rows[j][1] = axis
                   IN  Endpoint(rows[i][2], rows[i][3]) ]]

RECURSIVE UpdateVectorRowsLoop(_, _, _)
UpdateVectorRowsLoop(table, rows, strict) ==
    IF rows = << >> THEN [exc |-> "none", table |-> table]
    ELSE LET row == Head(rows)
         IN  IF row[1] \in DOMAIN table
             THEN UpdateVectorRowsLoop(
                     [table EXCEPT ![row[1]] = Endpoint(row[2], row[3])],
                     Tail(rows), strict)
             ELSE IF strict THEN [exc |-> "Error", table |-> table]
             ELSE UpdateVectorRowsLoop(table, Tail(rows), strict)

UpdateVectorRows(table, rows, strict) ==
    UpdateVectorRowsLoop(table, rows, strict)

update_vector_values(new_rows) ==
    \E strict \in BOOLEAN :
        LET done == UpdateVectorRows(vectors_df, new_rows, strict)
        IN  /\ vectors_df' = done.table
            /\ mapper_call' = MapperRecord("update_vector_values", new_rows,
                                           done.exc, None, None, None)
            /\ UNCHANGED << axisVars, clusterVars, dimension_values_df, source_points,
                            animator, last_mapped_points_df, ignored_axis_ids,
                            mapping_id,
                    unknown_hidden >>

\* Mutant: only the x coordinate is written.
update_single_vector_x_only(axis_id, x1, y1) ==
    /\ vectors_df' =
          IF axis_id \in DOMAIN vectors_df
          THEN [vectors_df EXCEPT ![axis_id] = Endpoint(x1, @.y)]
          ELSE vectors_df
    /\ mapper_call' =
          MapperRecord("update_single_vector", << axis_id, x1, y1 >>, "none",
                       None, None, None)
    /\ UNCHANGED << axisVars, clusterVars, dimension_values_df, source_points, animator,
                    last_mapped_points_df, ignored_axis_ids, mapping_id,
                    unknown_hidden >>

\* .loc[axis_id:axis_id, 'x'] = x1: a label slice.  For a label that is not
\* in the index the slice is empty on a sorted index and a lookup failure on
\* an unsorted one; the frame is unchanged either way.
update_single_vector(axis_id, x1, y1) ==
    \E sorted \in BOOLEAN :
        /\ vectors_df' =
              IF axis_id \in DOMAIN vectors_df
              THEN [vectors_df EXCEPT ![axis_id] = Endpoint(x1, y1)]
              ELSE vectors_df
        /\ mapper_call' =
              MapperRecord("update_single_vector", << axis_id, x1, y1 >>,
                           IF axis_id \in DOMAIN vectors_df \/ sorted
                           THEN "none" ELSE "KeyError",
                           None, None, None)
        /\ UNCHANGED << axisVars, clusterVars, dimension_values_df, source_points,
                        animator, last_mapped_points_df, ignored_axis_ids,
                        mapping_id,
                    unknown_hidden >>

update_animator(new_animator) ==
    /\ animator' = new_animator
    /\ mapper_call' = MapperRecord("update_animator", new_animator, "none",
                                   None, None, None)
    /\ UNCHANGED << axisVars, clusterVars, dimension_values_df, vectors_df, source_points,
                    last_mapped_points_df, ignored_axis_ids, mapping_id,
                    unknown_hidden >>

ClusterIdle ==
    /\ active_algorithm_id = DUMMY_ID
    /\ clustering_dic = << >>
    /\ label_colors = DEFAULT_LABEL_COLORS
    /\ source = None
    /\ n_clusters = MIN_CLUSTERS
    /\ algorithm_runs = [ key \in PairKeys |-> 0 ]
    /\ cluster_call = CallRecord("__init__", 0, NoTable, "none", None, FALSE)

\* A MapperController on its own: the cluster controller's variables stay idle.
MapperInit == MapperConstructed /\ ClusterIdle /\ AxisIdle

MapperNext ==
    \/ \E axis_id \in AxisIds, visible \in BOOLEAN :
          update_axis_status(axis_id, visible)
    \/ get_vectors
    \/ get_dimension_values
    \/ caller_changes_returned
    \/ execute_mapping
    \/ get_mapped_points
    \/ \E new_df \in DimensionTables : update_dimension_values(new_df)
    \/ \E new_rows \in VectorUpdates : update_vector_values(new_rows)
    \/ \E axis_id \in AxisIds, end \in NewEndpoints :
          update_single_vector(axis_id, end.x, end.y)
    \/ \E new_animator \in { None, Some("animator") } :
          update_animator(new_animator)

MapperSpec == MapperInit /\ [][MapperNext]_vars

\* ------------------------------------------------------------ AxisGenerator
\* The label lists callers pass: the first n of these, n up to MaxLabels.
AxisLabels == << "a", "b", "c", "d", "e", "f" >>
LabelLists == { SubSeq(AxisLabels, 1, n) : n \in 0..MaxLabels }

\* random.randint(1, 9): both ends included.
Radii == 1..9

\* An angle in degrees as the exact quotient num / den: i * (360 / n_lines)
\* under true division.
Angle(i, n_lines) == [num |-> i * 360, den |-> n_lines]

\* _subdivide_circle(centre, n_lines) with rs[k] the radius drawn in round
\* k of the loop (i = k - 1).  A segment is kept by its start (x0, y0), its
\* radius and its angle: the end point is (x0 + r*cos, y0 + r*sin) of that
\* angle.  The two clamps of cos_ and sin_ test abs(.) < 0.0, which no
\* number satisfies, so both are used as computed.
SubdivideCircle(centre, n_lines, rs) ==
    [k \in 1..n_lines |->
        [x0 |-> centre[1], y0 |-> centre[2], r |-> rs[k],
         angle |-> Angle(k - 1, n_lines)]]

\* pd.DataFrame(segment_list, axis_labels): one row per label.
SegmentFrame(segment_list, axis_labels) ==
    [index |-> axis_labels, rows |-> segment_list]

\* generate_star_axis(axis_labels): builds the frame, prints it, and ends
\* without a return statement, so the call evaluates to None.  Every call
\* starts from the same (empty) state, so the calls are taken from there.
generate_star_axis(axis_labels) ==
    /\ axis_call.op = "none"
    /\ LET n_lines == Len(axis_labels)
       IN  \E rs \in [1..n_lines -> Radii] :
             LET segment_list == SubdivideCircle(<< 0, 0 >>, n_lines, rs)
                 df == SegmentFrame(segment_list, axis_labels)
             IN  axis_call' = [op |-> "generate_star_axis",
                               labels |-> axis_labels,
                               segment_list |-> segment_list,
                               printed |-> Some(df),
                               ret |-> None]
    /\ UNCHANGED << clusterVars, mapperVars >>

AxisInit == AxisIdle /\ ClusterIdle /\ MapperIdle

AxisNext == \E axis_labels \in LabelLists : generate_star_axis(axis_labels)

AxisSpec == AxisInit /\ [][AxisNext]_vars

\* ------------------------------------------------------------ ClusterController claims
CurrentKey == << active_algorithm_id, n_clusters >>

\* C1: update_number_of_clusters(n) with n < 3 raises a value error and
\* leaves the stored count and the clustering cache as they were; with
\* n >= 3 it does not raise and the stored count becomes n.
C1_UpdateNumberOfClusters ==
    [][ cluster_call'.op = "update_number_of_clusters" =>
          IF cluster_call'.n < 3
          THEN /\ cluster_call'.exc = "ValueError"
               /\ n_clusters' = n_clusters
               /\ clustering_dic' = clustering_dic
          ELSE /\ cluster_call'.exc = "none"
               /\ n_clusters' = cluster_call'.n ]_vars

\* A rejected count arrives at a controller that holds cached clusterings.
C1_Witness ==
    /\ cluster_call.op = "update_number_of_clusters"
    /\ cluster_call.n < 3
    /\ cluster_call.exc = "ValueError"
    /\ n_clusters >= 3
    /\ DOMAIN clustering_dic # {}

\* C2: the clustering algorithm is executed at most once for each
\* (algorithm id, cluster count) pair; an update_clusters call whose pair is
\* already cached does not execute it and colors by the cached labels.
C2_AtMostOneRunPerPair ==
    [][ /\ \A key \in PairKeys : algorithm_runs'[key] <= 1
        /\ ( cluster_call'.op = "update_clusters"
             /\ CurrentKey \in DOMAIN clustering_dic ) =>
               /\ algorithm_runs' = algorithm_runs
               /\ ~ cluster_call'.executed
               /\ ( cluster_call'.exc = "none" /\ source # None ) =>
                     \A i \in 1..Len(clustering_dic[CurrentKey]) :
                        source'[1].color[1].values[i] =
                           label_colors[clustering_dic[CurrentKey][i] + 1] ]_vars

\* The pair in use was clustered, left (another count or algorithm was
\* clustered too) and reached again by an update_clusters that hit the cache.
C2_Witness ==
    /\ cluster_call.op = "update_clusters"
    /\ ~ cluster_call.executed
    /\ algorithm_runs[CurrentKey] = 1
    /\ \E key \in PairKeys : key # CurrentKey /\ algorithm_runs[key] = 1

\* C5: get_classes fails with a lookup error whenever the current pair has
\* no cached clustering, even though other pairs are cached, and otherwise
\* returns the labels cached for the current pair; either way the
\* controller's state stays as it was.
C5_GetClasses ==
    [][ cluster_call'.op = "get_classes" =>
          /\ UNCHANGED << active_algorithm_id, clustering_dic, label_colors,
                          source, n_clusters >>
          /\ IF CurrentKey \in DOMAIN clustering_dic
             THEN /\ cluster_call'.exc = "none"
                  /\ cluster_call'.ret = << clustering_dic[CurrentKey] >>
             ELSE /\ cluster_call'.exc = "KeyError"
                  /\ cluster_call'.ret = << >> ]_vars

\* get_classes failed on a pair not yet clustered while another pair is cached.
C5_Witness ==
    /\ cluster_call.op = "get_classes"
    /\ cluster_call.exc = "KeyError"
    /\ CurrentKey \notin DOMAIN clustering_dic
    /\ DOMAIN clustering_dic # {}

\* C6: the clustering cache only grows: no call removes a cached key or
\* changes its labels, and an update_clusters call on a cached key colors
\* by the cached labels whatever table it is given.
C6_CacheOnlyGrows ==
    [][ /\ \A key \in DOMAIN clustering_dic :
             /\ key \in DOMAIN clustering_dic'
             /\ clustering_dic'[key] = clustering_dic[key]
        /\ ( /\ cluster_call'.op = "update_clusters"
             /\ CurrentKey \in DOMAIN clustering_dic
             /\ cluster_call'.exc = "none"
             /\ source # None ) =>
               source'[1].color[1].values =
                  [ i \in 1..Len(clustering_dic[CurrentKey]) |->
                      label_colors[clustering_dic[CurrentKey][i] + 1] ] ]_vars

\* update_clusters returned on a cached key with a table whose own clustering
\* differs from the cached labels, and the colors are those of the cache.
C6_Witness ==
    /\ cluster_call.op = "update_clusters"
    /\ cluster_call.exc = "none"
    /\ ~ cluster_call.executed
    /\ source # None
    /\ clustering_dic[CurrentKey] #
          ExecuteClustering(active_algorithm_id, cluster_call.data, n_clusters)
    /\ Cardinality(DOMAIN clustering_dic) >= 2

\* C8: after update_clusters(data) returns with a data source configured,
\* the color column has one color per row of data, indexed by data's row
\* index, each the palette entry at the row's label for the current pair.
C8_ColorsAligned ==
    ( cluster_call.op = "update_clusters" /\ cluster_call.exc = "none"
      /\ source # None ) =>
        /\ CurrentKey \in DOMAIN clustering_dic
        /\ source[1].color # << >>
        /\ LET column == source[1].color[1]
               labels == clustering_dic[CurrentKey]
           IN  /\ column.index = cluster_call.data.index
               /\ Len(column.values) = Len(cluster_call.data.index)
               /\ \A i \in 1..Len(column.values) :
                     column.values[i] = label_colors[labels[i] + 1]

\* A two-row table was colored with two different palette entries.
C8_Witness ==
    /\ cluster_call.op = "update_clusters"
    /\ cluster_call.exc = "none"
    /\ source # None
    /\ source[1].color # << >>
    /\ Len(source[1].color[1].values) = 2
    /\ source[1].color[1].values[1] # source[1].color[1].values[2]

\* ------------------------------------------------------------ MapperController claims
InBothTables(axis) ==
    axis \in DOMAIN vectors_df /\ axis \in DOMAIN dimension_values_df

\* What a getter's copy must be when the named axis was just hidden or shown:
\* the axis is absent (hidden) or present with its canonical value (shown),
\* and every other visible axis of the table is present.
ViewAfterStatus(result, table, axis, visible) ==
    /\ result.exc = "none"
    /\ LET view == result.value[1]
       IN  /\ IF visible
              THEN axis \in DOMAIN view /\ view[axis] = table[axis]
              ELSE axis \notin DOMAIN view
           /\ \A other \in DOMAIN table \ ignored_axis_ids :
                 other \in DOMAIN view /\ view[other] = table[other]

\* C3 as stated: for an axis in both tables, after update_axis_status(axis,
\* False) get_vectors and get_dimension_values return tables without it and
\* with every other visible axis, and after update_axis_status(axis, True)
\* they return it with the canonical values, whatever else is hidden.
C3_AsStated ==
    ( mapper_call.op = "update_axis_status" /\ InBothTables(mapper_call.arg[1]) )
    => /\ ViewAfterStatus(GetVectors, vectors_df, mapper_call.arg[1],
                          mapper_call.arg[2])
       /\ ViewAfterStatus(GetDimensionValues, dimension_values_df,
                          mapper_call.arg[1], mapper_call.arg[2])

\* C3 amended: the same, for each getter whose table holds every hidden
\* identifier; a getter whose table lacks a hidden identifier fails with a
\* lookup error instead.
C3_HideShow ==
    ( mapper_call.op = "update_axis_status" /\ InBothTables(mapper_call.arg[1]) )
    => /\ IF ignored_axis_ids \subseteq DOMAIN vectors_df
          THEN ViewAfterStatus(GetVectors, vectors_df, mapper_call.arg[1],
                               mapper_call.arg[2])
          ELSE GetVectors.exc = "KeyError"
       /\ IF ignored_axis_ids \subseteq DOMAIN dimension_values_df
          THEN ViewAfterStatus(GetDimensionValues, dimension_values_df,
                               mapper_call.arg[1], mapper_call.arg[2])
          ELSE GetDimensionValues.exc = "KeyError"

\* Axis "a" was shown again, with an endpoint changed since construction,
\* while "b" is hidden.
C3_Witness ==
    /\ mapper_call.op = "update_axis_status"
    /\ mapper_call.arg = << "a", TRUE >>
    /\ ignored_axis_ids = { "b" }
    /\ InBothTables("a")
    /\ vectors_df["a"] # InitialVectors["a"]
    /\ GetVectors.exc = "none"
    /\ "b" \notin DOMAIN GetVectors.value[1]

\* C4: an execute_mapping call that computes points hands them, with the
\* previous call's result (nothing on the first call), to the animator if one
\* is configured, and then does not write the point source; without an
\* animator it sets the source's x and y columns to the new points' x and y.
\* A call that fails hands nothing over and writes nothing.
C4_AnimatorOrSource ==
    [][ mapper_call'.op = "execute_mapping" =>
          IF mapper_call'.exc = "none"
          THEN /\ mapper_call'.ret = last_mapped_points_df'
               /\ IF animator # << >>
                  THEN /\ mapper_call'.animation =
                             << << last_mapped_points_df, mapper_call'.ret >> >>
                       /\ source_points' = source_points
                  ELSE /\ mapper_call'.animation = << >>
                       /\ source_points # << >> =>
                             /\ source_points'[1].x = << mapper_call'.ret[1].x >>
                             /\ source_points'[1].y = << mapper_call'.ret[1].y >>
          ELSE /\ mapper_call'.animation = << >>
               /\ source_points' = source_points ]_vars

\* An animator set after an earlier mapping had written the source was handed
\* the previous and the new points, which differ from what the source holds.
C4_Witness ==
    /\ mapper_call.op = "execute_mapping"
    /\ animator # << >>
    /\ mapper_call.animation # << >>
    /\ mapper_call.animation[1][1] # << >>
    /\ mapper_call.animation[1][1] # mapper_call.animation[1][2]
    /\ source_points # << >>
    /\ source_points[1].x # << >>
    /\ source_points[1].x # << mapper_call.ret[1].x >>

\* C7: execute_mapping runs the active algorithm on the canonical tables
\* minus the hidden axes (columns of the dimension values, rows of the
\* vectors), so the two inputs name the same axes when the canonical tables do.
C7_FilteredInputs ==
    ( mapper_call.op = "execute_mapping" /\ mapper_call.exc = "none" ) =>
       /\ mapper_call.algorithm_in # << >>
       /\ LET dims == mapper_call.algorithm_in[1][1]
              vecs == mapper_call.algorithm_in[1][2]
          IN  /\ DOMAIN dims = DOMAIN dimension_values_df \ ignored_axis_ids
              /\ DOMAIN vecs = DOMAIN vectors_df \ ignored_axis_ids
              /\ \A axis \in DOMAIN dims : dims[axis] = dimension_values_df[axis]
              /\ \A axis \in DOMAIN vecs : vecs[axis] = vectors_df[axis]
              /\ DOMAIN dimension_values_df = DOMAIN vectors_df =>
                    DOMAIN dims = DOMAIN vecs
              /\ mapper_call.ret = << ExecuteMapping(mapping_id, dims, vecs) >>

\* A mapping ran on consistent tables with one of their axes hidden.
C7_Witness ==
    /\ mapper_call.op = "execute_mapping"
    /\ mapper_call.exc = "none"
    /\ DOMAIN dimension_values_df = DOMAIN vectors_df
    /\ ignored_axis_ids = { "b" }
    /\ DOMAIN mapper_call.algorithm_in[1][1] = { "a" }
    /\ DOMAIN mapper_call.algorithm_in[1][2] = { "a" }

\* The frame a caller hands to update_vector_values, as a table.
TableOfRows(rows) ==
    [ axis \in { rows[i][1] : i \in 1..Len(rows) } |->
        LET last == CHOOSE i \in 1..Len(rows) :
                      /\ rows[i][1] = axis
                      /\ \A j \in (i + 1)..Len(rows) : rows[j][1] # axis
        IN  [x |-> rows[last][2], y |-> rows[last][3]] ]

C10_AsStated ==
    ( unknown_hidden # {}
      /\ mapper_call.op \in { "get_vectors", "get_dimension_values",
                              "execute_mapping" } )
    => mapper_call.exc = "KeyError"

\* C10 amended: update_axis_status never fails and records an identifier of
\* neither table as hidden; until it is made visible again every get_vectors
\* and execute_mapping call fails with a lookup failure, execute_mapping
\* leaving the last mapped points unchanged, and every get_dimension_values
\* call fails while the dimension values have no column of that name.
C10_UnknownAxis ==
    [][ /\ mapper_call'.op = "update_axis_status" =>
              /\ mapper_call'.exc = "none"
              /\ ~ mapper_call'.arg[2] => mapper_call'.arg[1] \in ignored_axis_ids'
              /\ unknown_hidden' \subseteq ignored_axis_ids'
        /\ ( unknown_hidden' # {}
             /\ mapper_call'.op \in { "get_vectors", "execute_mapping" } ) =>
              /\ mapper_call'.exc = "KeyError"
              /\ last_mapped_points_df' = last_mapped_points_df
        /\ ( mapper_call'.op = "get_dimension_values"
             /\ \E axis \in unknown_hidden' :
                   axis \notin DOMAIN dimension_values_df' ) =>
              mapper_call'.exc = "KeyError" ]_vars

\* After a successful mapping an identifier of neither table was hidden and
\* execute_mapping failed, keeping the earlier points.
C10_Witness ==
    /\ mapper_call.op = "execute_mapping"
    /\ mapper_call.exc = "KeyError"
    /\ "c" \in unknown_hidden
    /\ "c" \notin DOMAIN dimension_values_df
    /\ last_mapped_points_df # << >>

\* ------------------------------------------------------------ ClusterController claims, continued
\* C15 as stated: in every reachable state, right after construction with any
\* n_clusters argument and after any update_number_of_clusters calls, the
\* cluster count in use is at least 3.
C15_AsStated == n_clusters >= 3

\* The labels cached for the current pair name a color the palette lacks.
CurrentLabelsPastPalette ==
    /\ CurrentKey \in DOMAIN clustering_dic
    /\ \E i \in 1..Len(clustering_dic[CurrentKey]) :
          clustering_dic[CurrentKey][i] >= Len(label_colors)

\* C16: an update_clusters call that fails on a label without a palette
\* entry leaves the color column as it was but has stored the labels for the
\* current pair; while that pair is current, get_classes returns them and
\* update_clusters fails again without running the algorithm.
C16_FailedColoringKeepsLabels ==
    [][ /\ ( cluster_call'.op = "update_clusters"
             /\ cluster_call'.exc = "IndexError" ) =>
              /\ source' = source
              /\ CurrentKey \in DOMAIN clustering_dic'
              /\ \E i \in 1..Len(clustering_dic'[CurrentKey]) :
                    clustering_dic'[CurrentKey][i] >= Len(label_colors)
              /\ cluster_call'.executed =>
                    clustering_dic'[CurrentKey] =
                       ExecuteClustering(active_algorithm_id,
                                         cluster_call'.data, n_clusters)
        /\ ( CurrentLabelsPastPalette /\ cluster_call'.op = "get_classes" ) =>
              /\ cluster_call'.exc = "none"
              /\ cluster_call'.ret = << clustering_dic[CurrentKey] >>
        /\ ( CurrentLabelsPastPalette /\ cluster_call'.op = "update_clusters" ) =>
              /\ cluster_call'.exc = "IndexError"
              /\ ~ cluster_call'.executed
              /\ algorithm_runs' = algorithm_runs
              /\ source' = source ]_vars

\* A second update_clusters failed on the stored labels without running the
\* algorithm, and the color column still holds an earlier coloring.
C16_Witness ==
    /\ cluster_call.op = "update_clusters"
    /\ cluster_call.exc = "IndexError"
    /\ ~ cluster_call.executed
    /\ algorithm_runs[CurrentKey] = 1
    /\ CurrentLabelsPastPalette
    /\ source # << >>
    /\ source[1].color # << >>

\* ------------------------------------------------------------ MapperController claims, continued
\* C12: get_mapped_points returns nothing before the first execute_mapping
\* and afterwards the result of the most recent successful execute_mapping;
\* update_axis_status, update_dimension_values, update_vector_values,
\* update_single_vector and update_animator never change it.
C12_LastMappedPoints ==
    /\ last_mapped_points_df = << >>
    /\ [][ /\ mapper_call'.op = "get_mapped_points" =>
                /\ mapper_call'.ret = last_mapped_points_df
                /\ last_mapped_points_df' = last_mapped_points_df
           /\ mapper_call'.op = "execute_mapping" =>
                IF mapper_call'.exc = "none"
                THEN /\ mapper_call'.ret # << >>
                     /\ last_mapped_points_df' = mapper_call'.ret
                ELSE last_mapped_points_df' = last_mapped_points_df
           /\ mapper_call'.op \in { "update_axis_status",
                                    "update_dimension_values",
                                    "update_vector_values",
                                    "update_single_vector", "update_animator",
                                    "get_vectors", "get_dimension_values" } =>
                last_mapped_points_df' = last_mapped_points_df ]_vars

\* get_mapped_points returned points that a mapping of the present tables
\* would not give: the tables changed after the last mapping.
C12_Witness ==
    /\ mapper_call.op = "get_mapped_points"
    /\ mapper_call.ret # << >>
    /\ MappingInputs.exc = "none"
    /\ mapper_call.ret[1] #
          ExecuteMapping(mapping_id, MappingInputs.value[1][1],
                         MappingInputs.value[1][2])

\* C13: update_single_vector(axis, x1, y1) for an existing axis sets that
\* axis's endpoint to (x1, y1) and leaves the other endpoints, the dimension
\* values and the hidden set unchanged, hidden axis or not; showing an axis
\* makes get_vectors return its canonical endpoint.
C13_UpdateSingleVector ==
    [][ /\ ( mapper_call'.op = "update_single_vector"
             /\ mapper_call'.arg[1] \in DOMAIN vectors_df ) =>
              /\ mapper_call'.exc = "none"
              /\ DOMAIN vectors_df' = DOMAIN vectors_df
              /\ vectors_df'[mapper_call'.arg[1]] =
                    [x |-> mapper_call'.arg[2], y |-> mapper_call'.arg[3]]
              /\ \A other \in DOMAIN vectors_df \ { mapper_call'.arg[1] } :
                    vectors_df'[other] = vectors_df[other]
              /\ dimension_values_df' = dimension_values_df
              /\ ignored_axis_ids' = ignored_axis_ids
        /\ ( /\ mapper_call'.op = "update_axis_status"
             /\ mapper_call'.arg[2]
             /\ mapper_call'.arg[1] \in DOMAIN vectors_df
             /\ GetVectors'.exc = "none" ) =>
              /\ mapper_call'.arg[1] \in DOMAIN GetVectors'.value[1]
              /\ GetVectors'.value[1][mapper_call'.arg[1]] =
                    vectors_df[mapper_call'.arg[1]] ]_vars

\* A hidden axis was given a new endpoint.
C13_Witness ==
    /\ mapper_call.op = "update_single_vector"
    /\ mapper_call.arg[1] \in ignored_axis_ids
    /\ mapper_call.arg[1] \in DOMAIN vectors_df
    /\ vectors_df[mapper_call.arg[1]] # InitialVectors[mapper_call.arg[1]]
    /\ vectors_df[mapper_call.arg[1]] =
          [x |-> mapper_call.arg[2], y |-> mapper_call.arg[3]]

\* C14: the tables get_vectors and get_dimension_values return are copies:
\* the calls and a later change of a returned table leave the canonical
\* tables, and with them what get_vectors, get_dimension_values and
\* execute_mapping work on, as they were; update_axis_status changes the
\* hidden set and neither canonical table.
C14_ReturnedCopies ==
    [][ /\ mapper_call'.op \in { "get_vectors", "get_dimension_values",
                                 "caller_changes_returned" } =>
              /\ vectors_df' = vectors_df
              /\ dimension_values_df' = dimension_values_df
              /\ ignored_axis_ids' = ignored_axis_ids
              /\ GetVectors' = GetVectors
              /\ GetDimensionValues' = GetDimensionValues
              /\ MappingInputs' = MappingInputs
        /\ mapper_call'.op = "update_axis_status" =>
              /\ vectors_df' = vectors_df
              /\ dimension_values_df' = dimension_values_df
              /\ UNCHANGED << source_points, animator, last_mapped_points_df,
                              mapping_id >> ]_vars

\* With nothing hidden get_vectors returned the whole table, the caller
\* emptied what it got, and the controller still has every row.
C14_Witness ==
    /\ mapper_call.op = "caller_changes_returned"
    /\ mapper_call.arg = "get_vectors"
    /\ ignored_axis_ids = {}
    /\ DOMAIN mapper_call.ret[1] = {}
    /\ DOMAIN vectors_df = { "a", "b" }
    /\ GetVectors.value = << vectors_df >>

\* The star of the given labels: one segment per label, each from the
\* centre (0,0), the i-th (from 0) at angle i*360/N, radius an integer 1..9.
IsStarAxis(segments, labels) ==
    /\ Len(segments) = Len(labels)
    /\ \A k \in 1..Len(segments) :
          /\ segments[k].x0 = 0
          /\ segments[k].y0 = 0
          /\ segments[k].angle.den # 0
          /\ segments[k].angle.num * Len(labels)
                = ((k - 1) * 360) * segments[k].angle.den
          /\ segments[k].r \in 1..9

\* C11 as stated: a call of generate_star_axis returns the star of its
\* labels (for a, b, c, d: four segments from (0,0) at 0, 90, 180 and 270
\* degrees).  The call returns None.
C11_AsStated ==
    axis_call.op = "generate_star_axis" =>
        /\ axis_call.ret # None
        /\ IsStarAxis(axis_call.ret[1].rows, axis_call.labels)

\* What the call prints is the star of its labels.
C11_PrintedStarAxis ==
    axis_call.op = "generate_star_axis" =>
        /\ axis_call.printed # None
        /\ axis_call.printed[1].index = axis_call.labels
        /\ IsStarAxis(axis_call.printed[1].rows, axis_call.labels)

\* The call with the labels a, b, c, d has printed four segments at 0, 90,
\* 180 and 270 degrees and returned None.
C11_FourLabels ==
    /\ axis_call.op = "generate_star_axis"
    /\ axis_call.labels = << "a", "b", "c", "d" >>
    /\ axis_call.ret = None
    /\ [k \in 1..4 |-> axis_call.printed[1].rows[k].angle.num
                          \div axis_call.printed[1].rows[k].angle.den]
          = << 0, 90, 180, 270 >>

====
